---- MODULE Spec2Model ----
(***************************************************************************)
(* fbtextdemo: UTF-8 decoding, word measuring, greedy line breaking,       *)
(* line alignment and drawing of words inside a bounding rectangle         *)
(* (src/src/main.c).                                                        *)
(*                                                                         *)
(* Three specifications share this module:                                 *)
(*   Spec       - main(): the words of the command line are decoded and    *)
(*                measured, compute_glyph_lines breaks them into lines,    *)
(*                draw_word_glyphs draws the lines;                        *)
(*   SpecDecode - utf8_to_utf32 run step by step on one byte string;       *)
(*                SpecDecodeFair is the same with its steps taken fairly;  *)
(*   SpecFb     - the FrameBuffer object of framebuffer.c from its         *)
(*                creation in main to its destruction, with the pixels     *)
(*                that framebuffer_set_pixel and face_draw_char_on_fb      *)
(*                write.                                                   *)
(***************************************************************************)
EXTENDS Integers, Sequences, FiniteSets, TLC

(***************************************************************************)
(* Bounds of the model.                                                    *)
(***************************************************************************)
\* Largest number of words on the command line.
MaxWords == 3
\* init_x ranges over 0, 1 and -MaxOrigin, init_y over 0 .. 1.
MaxOrigin == 4
\* width ranges over -1 .. MaxWidth, height over 0 .. MaxHeight.
MaxWidth == 4
MaxHeight == 3
\* The line spacing of the face ranges over 1 .. MaxLineSpacing.
MaxLineSpacing == 2
\* Largest number of scalar values in a string given to the decoder.
MaxScalars == 2
\* Largest value of word_length that the counting pass of the decoder keeps
\* exactly (the pass need not terminate).
MaxCount == 4
\* The display is 2 .. MaxFbW pixels wide and MaxFbH pixels high.
MaxFbW == 3
MaxFbH == 3
\* Bytes a line of the device may hold beyond its pixels.
MaxSlop == 2
\* A character is drawn with its pen at 0 .. MaxPen in both directions.
MaxPen == 1
\* Largest number of pixel and character drawing calls in a run.
MaxDraws == 1
\* Largest number of framebuffer_deinit calls made by the caller in a run.
MaxDeinits == 2

(***************************************************************************)
(* C integer arithmetic.                                                   *)
(***************************************************************************)
\* A division that rounds toward minus infinity instead.
CDiv_floor(a, b) == a \div b

\* int / int of C: the quotient truncates toward zero (b > 0).
CDiv(a, b) == IF a >= 0 THEN a \div b ELSE -((-a) \div b)

(***************************************************************************)
(* The face (FreeType is an external library: a small fixed font).         *)
(***************************************************************************)
\* A face whose glyph for the characters it does not map is 1 px wide.
HoriAdvance_notdef(c) ==
    CASE c = 32  -> 1
      [] c = 105 -> 1
      [] c = 233 -> 2
      [] c = 87  -> 3
      [] OTHER   -> 1

\* face->glyph->metrics.horiAdvance / 64 of the glyph loaded for c:
\* ' ' and 'i' are 1 px wide, U+00E9 2 px, 'W' 3 px; no other glyph.
HoriAdvance(c) ==
    CASE c = 32  -> 1
      [] c = 105 -> 1
      [] c = 233 -> 2
      [] c = 87  -> 3
      [] OTHER   -> 0

\* face_get_char_extent: *x of one character.
face_get_char_extent(c) == HoriAdvance(c)

\* face_get_string_extent: *x is the sum of the extents of the characters
\* of the null-terminated string s.
RECURSIVE StringExtentFrom(_, _)
StringExtentFrom(s, i) ==
    IF s[i] = 0 THEN 0
    ELSE face_get_char_extent(s[i]) + StringExtentFrom(s, i + 1)

face_get_string_extent(s) == StringExtentFrom(s, 1)

\* A pen that leaves one more pixel after each character.
face_draw_char_pen_gap(c, x) == x + HoriAdvance(c) + 1

\* face_draw_char_on_fb: the pen after the character is drawn at pen x.
face_draw_char_pen(c, x) == x + HoriAdvance(c)

\* face_draw_string_on_fb: the pen after the null-terminated string s is
\* drawn starting at pen x.
RECURSIVE DrawStringFrom(_, _, _)
DrawStringFrom(s, i, x) ==
    IF s[i] = 0 THEN x
    ELSE DrawStringFrom(s, i + 1, face_draw_char_pen(s[i], x))

face_draw_string_pen(s, x) == DrawStringFrom(s, 1, x)

\* static const UTF32 utf32_space[2] = {' ', 0}
utf32_space == <<32, 0>>

(***************************************************************************)
(* UTF-8 decoding.  A UTF8 string is a sequence of bytes 0 .. 255 ending   *)
(* with the byte 0; utf8_word_ptr is an offset from its start.             *)
(***************************************************************************)
\* next_utf8_glyph_length: *word & 0x80, & 0xE0, & 0xF0, & 0xF8.
next_utf8_glyph_length(b) ==
    IF b \div 128 = 0 THEN 1
    ELSE IF b \div 32 = 6 THEN 2
    ELSE IF b \div 16 = 14 THEN 3
    ELSE IF b \div 8 = 30 THEN 4
    ELSE -1

\* The byte at offset p of the string s (s[1] is offset 0).
ByteAt(s, p) == s[p + 1]

\* The 4-byte case with the lead byte shifted by 12 bits instead of 18.
utf32_glyph_shift(s, p, len, old) ==
    CASE len = 1 -> s[p + 1]
      [] len = 2 -> (s[p + 1] % 32) * 64 + (s[p + 2] % 64)
      [] len = 3 -> (s[p + 1] % 16) * 4096 + (s[p + 2] % 64) * 64
                      + (s[p + 3] % 64)
      [] len = 4 -> (s[p + 1] % 8) * 4096 + (s[p + 2] % 64) * 4096
                      + (s[p + 3] % 64) * 64 + (s[p + 4] % 64)
      [] OTHER   -> old

\* The value the conversion pass stores into *utf32_word_ptr for the glyph
\* of length len at offset p; for a length of -1 nothing is stored and the
\* slot keeps what malloc left there (old).
utf32_glyph(s, p, len, old) ==
    CASE len = 1 -> ByteAt(s, p)
      [] len = 2 -> (ByteAt(s, p) % 32) * 64 + (ByteAt(s, p + 1) % 64)
      [] len = 3 -> (ByteAt(s, p) % 16) * 4096 + (ByteAt(s, p + 1) % 64) * 64
                      + (ByteAt(s, p + 2) % 64)
      [] len = 4 -> (ByteAt(s, p) % 8) * 262144
                      + (ByteAt(s, p + 1) % 64) * 4096
                      + (ByteAt(s, p + 2) % 64) * 64
                      + (ByteAt(s, p + 3) % 64)
      [] OTHER   -> old

\* utf8_to_utf32 on a well-formed string: the conversion pass from offset p,
\* out being the codepoints stored so far.
RECURSIVE ConversionPass(_, _, _)
ConversionPass(s, p, out) ==
    IF ByteAt(s, p) = 0 THEN Append(out, 0)
    ELSE LET len == next_utf8_glyph_length(ByteAt(s, p))
         IN  ConversionPass(s, p + len, Append(out, utf32_glyph(s, p, len, 0)))

utf8_to_utf32(s) == ConversionPass(s, 0, << >>)

(***************************************************************************)
(* Inputs of main.                                                         *)
(***************************************************************************)
\* Words of the command line: "i", U+00E9 followed by "$" (for which the
\* font has no glyph) and "Wi" (null-terminated), 1, 2 and 4 px wide.
ArgWords == { <<105, 0>>, <<195, 169, 36, 0>>, <<87, 105, 0>> }

\* Values of the option -a; "" stands for an absent option.
AlignmentArgs == { "", "left", "center", "right", "justify" }

\* Values of -x, -y, -w and -h (atoi accepts negative numbers): init_x is
\* 0, 1 or -MaxOrigin, width is MaxWidth down to -1.
InitXs == << 0, 1, -MaxOrigin >>
InitYs == 0 .. 1
Widths == [ i \in 1 .. MaxWidth + 2 |-> MaxWidth + 1 - i ]
Heights == 0 .. MaxHeight
LineSpacings == 1 .. MaxLineSpacing

\* All sequences over S of length lo .. hi.
SeqsOf(S, lo, hi) == UNION { [1 .. n -> S] : n \in lo .. hi }

VARIABLES
    argv_words,          \* argv[optind + 1 ..]: the words, as UTF8 strings
    alignment_arg,       \* optarg of -a
    glyphs_boundary,     \* GlyphsBoundary {init_x, init_y, width, height}
    line_spacing,        \* face_get_line_spacing(face)
    text_alignment,      \* TextAlignmentType
    word_glyps,          \* WordGlyphs[]: word32, x_extent
    pc,                  \* position of main
    curr_word_idx,       \* compute_glyph_lines: loop index
    curr_x, curr_y,      \* compute_glyph_lines: pen
    words_in_curr_line,  \* compute_glyph_lines: the line in progress
    glyph_lines,         \* compute_glyph_lines: glyph_lines[0 .. line_count)
    height_is_overflowed,
    curr_line_idx,       \* draw_word_glyphs: loop index
    drawn,               \* the words drawn so far, with their pen positions
    placed_x,            \* the pen X at which each word was placed, by word
    utf8_word,           \* utf8_to_utf32: the input
    dpc,                 \* utf8_to_utf32: position
    utf8_word_ptr,       \* utf8_to_utf32: offset of utf8_word_ptr
    word_length,         \* utf8_to_utf32: result of the counting pass
    utf32_word,          \* utf8_to_utf32: the codepoints stored so far
    dev_arg,             \* optarg of -d ("" when the option is absent)
    fbdev,               \* main: char *fbdev
    fb_obj,              \* the FrameBuffer object: none, allocated, freed
    fb,                  \* the fields of struct _FrameBuffer
    fb_data,             \* the bytes of the device memory behind fb_data
    error,               \* main: error != NULL
    syscalls,            \* number of munmap and close calls made
    last_op,             \* the last framebuffer operation and its arguments
    written,             \* the offsets of fb_data the last operation wrote
    draw_count,          \* number of drawing calls made
    deinit_calls         \* number of framebuffer_deinit calls made

layoutVars == << argv_words, alignment_arg, glyphs_boundary, line_spacing,
                 text_alignment, word_glyps, pc, curr_word_idx, curr_x,
                 curr_y, words_in_curr_line, glyph_lines,
                 height_is_overflowed, curr_line_idx, drawn, placed_x >>

decodeVars == << utf8_word, dpc, utf8_word_ptr, word_length, utf32_word >>

fbVars == << dev_arg, fbdev, fb_obj, fb, fb_data, error, syscalls, last_op,
            written, draw_count, deinit_calls >>

vars == << layoutVars, decodeVars, fbVars >>

(***************************************************************************)
(* framebuffer.c.  The device memory is a function from byte offsets to    *)
(* bytes that covers every offset the code can compute for a pixel of the  *)
(* display; the first fb_data_size bytes of it are the mapped area.        *)
(***************************************************************************)
\* #define FBDEV "/dev/fb0"
FBDEV == "/dev/fb0"

\* The values of -d: absent, or another device.
DevArgs == {"", "/dev/fb1"}

\* The file descriptor that open returns when it succeeds.
OpenFd == 3

\* The byte every offset of the device memory holds before the program
\* draws (what is on the screen already).
Background == 1

\* The colour framebuffer_set_pixel is called with on its own.
PixelColour == [r |-> 200, g |-> 150, b |-> 100]

\* The struct before framebuffer_create has run.
NoFb == [ fbdev |-> "", fd |-> -1, w |-> 0, h |-> 0, fb_data_size |-> 0,
          mapped |-> FALSE, fb_bytes |-> 0, line_length |-> 0,
          stride |-> 0, slop |-> 0 ]

NoOp == [ op |-> "none", c |-> 0, x |-> 0, y |-> 0, r |-> 0, g |-> 0,
          b |-> 0, calls |-> << >> ]

Op(name) == [NoOp EXCEPT !.op = name]

\* The framebuffer does not exist while the layout or the decoder runs on
\* its own.
FbIdle ==
    /\ dev_arg = ""
    /\ fbdev = FBDEV
    /\ fb_obj = "none"
    /\ fb = NoFb
    /\ fb_data = << >>
    /\ error = FALSE
    /\ syscalls = [munmap |-> 0, close |-> 0]
    /\ last_op = NoOp
    /\ written = {}
    /\ draw_count = 0
    /\ deinit_calls = 0

\* max(a, b) of framebuffer.c
max(a, b) == IF a > b THEN a ELSE b

\* framebuffer_create: the fields it sets.
framebuffer_create(device) == [NoFb EXCEPT !.fbdev = device]

\* framebuffer_init after open succeeded, the device reporting xres, yres,
\* bits_per_pixel and line_length.
framebuffer_init(self, xres, yres, bits_per_pixel, line_length) ==
    LET fb_bytes == bits_per_pixel \div 8
        stride == max(line_length, xres * fb_bytes)
    IN  [ self EXCEPT !.fd = OpenFd, !.line_length = line_length,
                      !.w = xres, !.h = yres, !.fb_bytes = fb_bytes,
                      !.fb_data_size = xres * yres * fb_bytes,
                      !.stride = stride,
                      !.slop = stride - xres * fb_bytes,
                      !.mapped = TRUE ]

\* The offsets of the device memory the model keeps: stride * h bytes and
\* the one byte after them.
DeviceMemory(self) == 0 .. self.stride * self.h

\* int index32 = (y * self->w + x) * self->fb_bytes + y * self->slop
index32(self, x, y) == (y * self.w + x) * self.fb_bytes + y * self.slop

\* framebuffer_set_pixel: the memory after the call and the offsets written.
framebuffer_set_pixel(self, data, x, y, r, g, b) ==
    IF x > 0 /\ x < self.w /\ y > 0 /\ y < self.h
    THEN LET ix == index32(self, x, y)
         IN  [ data |-> [ o \in DOMAIN data |->
                            IF o = ix THEN b
                            ELSE IF o = ix + 1 THEN g
                            ELSE IF o = ix + 2 THEN r
                            ELSE IF o = ix + 3 THEN 0
                            ELSE data[o] ],
               written |-> ix .. ix + 3 ]
    ELSE [ data |-> data, written |-> {} ]

\* framebuffer_clear: memset (self->fb_data, 0, self->stride * self->h)
framebuffer_clear(self, data) ==
    [ data |-> [ o \in DOMAIN data |->
                   IF o < self.stride * self.h THEN 0 ELSE data[o] ],
      written |-> 0 .. self.stride * self.h - 1 ]

\* framebuffer_get_pixel: the colour it stores through r, g and b.
framebuffer_get_pixel(self, data, x, y) ==
    IF x > 0 /\ x < self.w /\ y > 0 /\ y < self.h
    THEN LET ix == index32(self, x, y)
         IN  [ r |-> data[ix + 2], g |-> data[ix + 1], b |-> data[ix] ]
    ELSE [ r |-> 0, g |-> 0, b |-> 0 ]

\* A framebuffer_deinit that leaves the descriptor in the object.
framebuffer_deinit_keep_fd(self) == [self EXCEPT !.mapped = FALSE]

\* framebuffer_deinit: the fields after the call.
framebuffer_deinit(self) == [self EXCEPT !.mapped = FALSE, !.fd = -1]

(***************************************************************************)
(* face_draw_char_on_fb: the glyphs of the font and the pixels drawn.      *)
(***************************************************************************)
\* face->bbox.yMax / 64
bbox_ymax == 2

\* face->glyph after FT_Load_Glyph and FT_Render_Glyph for c, in pixels:
\* metrics.width, metrics.horiBearingY and the bitmap (rows, width, pitch,
\* buffer).  The bytes of a row between width and pitch are padding; the
\* font gives them the value 99.  'i' is a column of two pixels, U+00E9 a
\* row of two cells of which the first is empty, 'W' a column of two cells
\* of which the second is empty; ' ' and a character without a glyph have
\* no bitmap.
GlyphSlot(c) ==
    CASE c = 105 -> [ width |-> 1, horiBearingY |-> 2,
                      bitmap |-> [ rows |-> 2, width |-> 1, pitch |-> 2,
                                   buffer |-> <<255, 99, 128, 99>> ] ]
      [] c = 233 -> [ width |-> 2, horiBearingY |-> 1,
                      bitmap |-> [ rows |-> 1, width |-> 2, pitch |-> 3,
                                   buffer |-> <<0, 180, 99>> ] ]
      [] c = 87  -> [ width |-> 1, horiBearingY |-> 2,
                      bitmap |-> [ rows |-> 2, width |-> 1, pitch |-> 1,
                                   buffer |-> <<77, 0>> ] ]
      [] OTHER   -> [ width |-> 0, horiBearingY |-> 0,
                      bitmap |-> [ rows |-> 0, width |-> 0, pitch |-> 0,
                                   buffer |-> << >> ] ]

\* The byte of the bitmap read for row i and column j, the rows being
\* taken as width bytes apart.
BitmapByte_packed(bitmap, i, j) == bitmap.buffer[i * bitmap.width + j + 1]

\* face->glyph->bitmap.buffer [i * face->glyph->bitmap.pitch + j]
BitmapByte(bitmap, i, j) == bitmap.buffer[i * bitmap.pitch + j + 1]

\* The calls of framebuffer_set_pixel that face_draw_char_on_fb makes for
\* the character c with the pen at (x, y), in the order of the two loops.
face_draw_char_on_fb(c, x, y) ==
    LET glyph == GlyphSlot(c)
        bitmap == glyph.bitmap
        y_off == bbox_ymax - glyph.horiBearingY
        glyph_width == glyph.width
        advance == HoriAdvance(c)
        x_off == CDiv(advance - glyph_width, 2)
        cell(k) == LET i == (k - 1) \div bitmap.width
                       j == (k - 1) % bitmap.width
                       p == BitmapByte(bitmap, i, j)
                   IN  [ x |-> x + j + x_off, y |-> y + i + y_off,
                         r |-> p, g |-> p, b |-> p ]
        cells == [ k \in 1 .. bitmap.rows * bitmap.width |-> cell(k) ]
    IN  SelectSeq(cells, LAMBDA call : call.r # 0)

\* The memory after the calls from the k-th on, and the offsets written.
RECURSIVE SetPixels(_, _, _, _)
SetPixels(self, data, calls, k) ==
    IF k > Len(calls) THEN [ data |-> data, written |-> {} ]
    ELSE LET one == framebuffer_set_pixel(self, data, calls[k].x, calls[k].y,
                                          calls[k].r, calls[k].g, calls[k].b)
             rest == SetPixels(self, one.data, calls, k + 1)
         IN  [ data |-> rest.data, written |-> one.written \cup rest.written ]

(***************************************************************************)
(* main: option parsing.                                                   *)
(***************************************************************************)
\* A parser in which the branch for "right" is live.
parse_alignment_right(string_type) ==
    IF string_type = "left" THEN "Left"
    ELSE IF string_type = "right" THEN "Right"
    ELSE IF string_type = "center" THEN "Center"
    ELSE "Left"

\* parse_alignment: "left" and everything that is not "center" give Left.
parse_alignment(string_type) ==
    IF string_type = "left" THEN "Left"
    ELSE IF string_type = "center" THEN "Center"
    ELSE "Left"

\* The pointer word_glyps[i].word32 is identified with the index i (each
\* word has its own allocation); Word32(i) is the string it points to.
Word32(i) == word_glyps[i].word32

word_count == Len(word_glyps)

\* The advance of a space in the face (space_x).
space_x == face_get_string_extent(utf32_space)

\* The decoder is idle while main runs.
DecodeIdle ==
    /\ utf8_word = <<0>>
    /\ dpc = "idle"
    /\ utf8_word_ptr = 0
    /\ word_length = 0
    /\ utf32_word = << >>

\* main after the option loop: the defaults or the values of the options.
Init ==
    /\ \E ix \in DOMAIN InitXs, iw \in DOMAIN Widths :
          \E y \in InitYs, h \in Heights :
             glyphs_boundary = [ init_x |-> InitXs[ix], init_y |-> y,
                                 width |-> Widths[iw], height |-> h ]
    /\ argv_words \in SeqsOf(ArgWords, 1, MaxWords)
    /\ alignment_arg \in AlignmentArgs
    /\ line_spacing \in LineSpacings
    /\ text_alignment = IF alignment_arg = "" THEN "Left"
                        ELSE parse_alignment(alignment_arg)
    /\ word_glyps = << >>
    /\ pc = "main"
    /\ curr_word_idx = 0
    /\ curr_x = 0
    /\ curr_y = 0
    /\ words_in_curr_line = << >>
    /\ glyph_lines = << >>
    /\ height_is_overflowed = FALSE
    /\ curr_line_idx = 0
    /\ drawn = << >>
    /\ placed_x = << >>
    /\ DecodeIdle
    /\ FbIdle

(***************************************************************************)
(* main: the words are decoded and measured, draw_word_glyphs is called    *)
(* and enters compute_glyph_lines.                                         *)
(***************************************************************************)
MeasureWords ==
    /\ pc = "main"
    /\ word_glyps' = [ i \in 1 .. Len(argv_words) |->
                         LET word32 == utf8_to_utf32(argv_words[i])
                         IN  [ word32 |-> word32,
                               x_extent |-> face_get_string_extent(word32) ] ]
    /\ curr_x' = glyphs_boundary.init_x
    /\ curr_y' = glyphs_boundary.init_y
    /\ words_in_curr_line' = << >>
    /\ glyph_lines' = << >>
    /\ height_is_overflowed' = FALSE
    /\ curr_word_idx' = 0
    /\ placed_x' = << >>
    /\ pc' = "compute_glyph_lines"
    /\ UNCHANGED << argv_words, alignment_arg, glyphs_boundary, line_spacing,
                    text_alignment, curr_line_idx, drawn >>
    /\ UNCHANGED << decodeVars, fbVars >>

(***************************************************************************)
(* compute_glyph_lines.                                                    *)
(***************************************************************************)
\* curr_y + line_spacing >= glyphs_boundary.init_y + glyphs_boundary.height
HeightOverflow(y, b) == y + line_spacing >= b.init_y + b.height

\* is_end_of_line = curr_x + curr_word_x_advance > glyphs_boundary.width
is_end_of_line(x, advance, b) == x + advance > b.width

\* A GlyphsLine: the word pointers, their number and the Y position.
GlyphsLine(words, y) ==
    [ word32 |-> words, word_count |-> Len(words), y_position |-> y ]

\* A wrap that keeps the words of the closed line in the accumulator.
FreshLine_keep(words) == words

\* curr_line_word_count = 0 and a fresh words_in_curr_line after a wrap.
FreshLine(words) == << >>

\* A wrap that advances the Y position twice.
NextLineY_twice(y) == y + 2 * line_spacing

\* curr_y += line_spacing after a wrap.
NextLineY(y) == y + line_spacing

\* A wrap taken at every end of line, also when the line has no word yet.
WrapsLine_always(end_of_line, curr_line_word_count) == end_of_line

\* if (is_end_of_line && curr_line_word_count > 0)
WrapsLine(end_of_line, curr_line_word_count) ==
    end_of_line /\ curr_line_word_count > 0

\* One iteration of the loop over the words.
LayoutWord ==
    /\ pc = "compute_glyph_lines"
    /\ curr_word_idx < word_count
    /\ LET w == curr_word_idx + 1
           curr_word_x_advance == word_glyps[w].x_extent + space_x
       IN  IF HeightOverflow(curr_y, glyphs_boundary)
           THEN /\ height_is_overflowed' = TRUE
                /\ pc' = "after_loop"
                /\ UNCHANGED << curr_word_idx, curr_x, curr_y,
                                words_in_curr_line, glyph_lines, placed_x >>
           ELSE /\ IF WrapsLine(is_end_of_line(curr_x, curr_word_x_advance,
                                                  glyphs_boundary),
                                   Len(words_in_curr_line))
                   THEN /\ glyph_lines' =
                              Append(glyph_lines,
                                     GlyphsLine(words_in_curr_line, curr_y))
                        /\ words_in_curr_line' =
                              Append(FreshLine(words_in_curr_line), w)
                        /\ curr_x' = glyphs_boundary.init_x
                                       + curr_word_x_advance
                        /\ curr_y' = NextLineY(curr_y)
                   ELSE /\ words_in_curr_line' =
                              Append(words_in_curr_line, w)
                        /\ curr_x' = curr_x + curr_word_x_advance
                        /\ UNCHANGED << glyph_lines, curr_y >>
                /\ placed_x' = Append(placed_x,
                                      curr_x' - curr_word_x_advance)
                /\ curr_word_idx' = curr_word_idx + 1
                /\ pc' = IF curr_word_idx + 1 < word_count
                         THEN "compute_glyph_lines" ELSE "after_loop"
                /\ UNCHANGED height_is_overflowed
    /\ UNCHANGED << argv_words, alignment_arg, glyphs_boundary, line_spacing,
                    text_alignment, word_glyps, curr_line_idx, drawn >>
    /\ UNCHANGED << decodeVars, fbVars >>

\* After the loop: the last line is written unless the height overflowed;
\* compute_glyph_lines returns to draw_word_glyphs.
LayoutFlush ==
    /\ pc = "after_loop"
    /\ IF ~ height_is_overflowed
       THEN glyph_lines' = Append(glyph_lines,
                                  GlyphsLine(words_in_curr_line, curr_y))
       ELSE UNCHANGED glyph_lines
    /\ words_in_curr_line' = << >>
    /\ curr_line_idx' = 0
    /\ pc' = "draw"
    /\ UNCHANGED << argv_words, alignment_arg, glyphs_boundary, line_spacing,
                    text_alignment, word_glyps, curr_word_idx, curr_x, curr_y,
                    height_is_overflowed, drawn >>
    /\ UNCHANGED << placed_x, decodeVars, fbVars >>

line_count == Len(glyph_lines)

\* compute_glyph_lines as a function of its arguments: the loop from word
\* idx on, with the pen at (x, y), the line in progress and the lines
\* written so far, run on the first n words of word_glyps.
RECURSIVE ComputeGlyphLinesFrom(_, _, _, _, _, _)
ComputeGlyphLinesFrom(n, idx, x, y, line, lines) ==
    IF idx >= n THEN Append(lines, GlyphsLine(line, y))
    ELSE IF HeightOverflow(y, glyphs_boundary) THEN lines
    ELSE LET w == idx + 1
             curr_word_x_advance == word_glyps[w].x_extent + space_x
         IN  IF WrapsLine(is_end_of_line(x, curr_word_x_advance,
                                         glyphs_boundary), Len(line))
             THEN ComputeGlyphLinesFrom(
                      n, idx + 1,
                      glyphs_boundary.init_x + curr_word_x_advance,
                      NextLineY(y), Append(FreshLine(line), w),
                      Append(lines, GlyphsLine(line, y)))
             ELSE ComputeGlyphLinesFrom(n, idx + 1, x + curr_word_x_advance,
                                        y, Append(line, w), lines)

\* The glyph lines returned for the first n words of word_glyps.
compute_glyph_lines(n) ==
    ComputeGlyphLinesFrom(n, 0, glyphs_boundary.init_x,
                          glyphs_boundary.init_y, << >>, << >>)

(***************************************************************************)
(* draw_word_glyphs.                                                       *)
(***************************************************************************)
\* compute_init_x_to_center_line
RECURSIVE LineWordsWidth(_, _)
LineWordsWidth(glyph_line, k) ==
    IF k > glyph_line.word_count THEN 0
    ELSE face_get_string_extent(Word32(glyph_line.word32[k]))
           + LineWordsWidth(glyph_line, k + 1)

\* A centring function that keeps state between its calls: its result
\* moves with the number of lines drawn so far.
compute_init_x_to_center_line_drift(glyph_line, b) ==
    LET line_width == (glyph_line.word_count - 1) * space_x
                        + LineWordsWidth(glyph_line, 1)
        middle_x == CDiv(b.width, 2)
        middle_line == CDiv(line_width, 2)
    IN  (middle_x - middle_line) + b.init_x + curr_line_idx

compute_init_x_to_center_line(glyph_line, b) ==
    LET line_width == (glyph_line.word_count - 1) * space_x
                        + LineWordsWidth(glyph_line, 1)
        middle_x == CDiv(b.width, 2)
        middle_line == CDiv(line_width, 2)
    IN  (middle_x - middle_line) + b.init_x

\* The initial pen X of a line.
LineInitX(alignment, glyph_line, b) ==
    IF alignment = "Center"
    THEN compute_init_x_to_center_line(glyph_line, b)
    ELSE b.init_x

\* face_draw_string_on_fb: the number of framebuffer_set_pixel calls made
\* for the characters of s from the i-th on, the pen being at (x, y).
RECURSIVE DrawStringPixels(_, _, _, _)
DrawStringPixels(s, i, x, y) ==
    IF s[i] = 0 THEN 0
    ELSE Len(face_draw_char_on_fb(s[i], x, y))
           + DrawStringPixels(s, i + 1, face_draw_char_pen(s[i], x), y)

\* The inner loop: the words k .. of the line are drawn from pen x, each
\* followed by a space; the result lists each word with the pen before it,
\* the pen after it and the number of pixels asked for.
RECURSIVE DrawWords(_, _, _, _)
DrawWords(glyph_line, line_idx, k, x) ==
    IF k > glyph_line.word_count THEN << >>
    ELSE LET w == glyph_line.word32[k]
             x_end == face_draw_string_pen(Word32(w), x)
         IN  << [ word |-> w, line |-> line_idx, k |-> k, x |-> x,
                  x_end |-> x_end, y |-> glyph_line.y_position,
                  pixels |-> DrawStringPixels(Word32(w), 1, x,
                                              glyph_line.y_position) ] >>
             \o DrawWords(glyph_line, line_idx, k + 1,
                          face_draw_string_pen(utf32_space, x_end))

\* One iteration of the loop over the lines.
DrawLine ==
    /\ pc = "draw"
    /\ curr_line_idx < line_count
    /\ LET curr_glyph_line == glyph_lines[curr_line_idx + 1]
           x == LineInitX(text_alignment, curr_glyph_line, glyphs_boundary)
       IN  drawn' = drawn \o DrawWords(curr_glyph_line, curr_line_idx + 1,
                                        1, x)
    /\ curr_line_idx' = curr_line_idx + 1
    /\ UNCHANGED << argv_words, alignment_arg, glyphs_boundary, line_spacing,
                    text_alignment, word_glyps, pc, curr_word_idx, curr_x,
                    curr_y, words_in_curr_line, glyph_lines,
                    height_is_overflowed >>
    /\ UNCHANGED << placed_x, decodeVars, fbVars >>

\* The loop over the lines ends; draw_word_glyphs returns.
DrawDone ==
    /\ pc = "draw"
    /\ curr_line_idx >= line_count
    /\ pc' = "done"
    /\ UNCHANGED << argv_words, alignment_arg, glyphs_boundary, line_spacing,
                    text_alignment, word_glyps, curr_word_idx, curr_x,
                    curr_y, words_in_curr_line, glyph_lines,
                    height_is_overflowed, curr_line_idx, drawn >>
    /\ UNCHANGED << placed_x, decodeVars, fbVars >>

(***************************************************************************)
(* The per-word loop of the original main: each word is measured, the pen  *)
(* moves to the next line if the word does not fit and the word is drawn,  *)
(* followed by a space, unless the line is below the height.  The result   *)
(* lists the words drawn from argv word i on, with the pen before each.    *)
(***************************************************************************)
RECURSIVE OriginalLoopFrom(_, _, _)
OriginalLoopFrom(i, x, y) ==
    IF i > Len(argv_words) THEN << >>
    ELSE LET word32 == utf8_to_utf32(argv_words[i])
             x_advance == face_get_string_extent(word32) + space_x
             wraps == x + x_advance > glyphs_boundary.width
             pen_x == IF wraps THEN glyphs_boundary.init_x ELSE x
             pen_y == IF wraps THEN y + line_spacing ELSE y
         IN  IF pen_y + line_spacing
                  < glyphs_boundary.init_y + glyphs_boundary.height
             THEN << [ word |-> i, x |-> pen_x, y |-> pen_y ] >>
                  \o OriginalLoopFrom(
                         i + 1,
                         face_draw_string_pen(
                             utf32_space,
                             face_draw_string_pen(word32, pen_x)),
                         pen_y)
             ELSE OriginalLoopFrom(i + 1, pen_x, pen_y)

\* int x = init_x; int y = init_y; for (int i = optind + 1; i < argc; i++)
OriginalLoop ==
    OriginalLoopFrom(1, glyphs_boundary.init_x, glyphs_boundary.init_y)

(***************************************************************************)
(* Allocation failures.                                                    *)
(***************************************************************************)
\* main: malloc of word_glyps returns NULL; main prints a message and
\* returns 1.
WordGlypsAllocFail ==
    /\ pc = "main"
    /\ pc' = "return_1"
    /\ UNCHANGED << argv_words, alignment_arg, glyphs_boundary, line_spacing,
                    text_alignment, word_glyps, curr_word_idx, curr_x,
                    curr_y, words_in_curr_line, glyph_lines,
                    height_is_overflowed, curr_line_idx, drawn >>
    /\ UNCHANGED << placed_x, decodeVars, fbVars >>

\* compute_glyph_lines: malloc of words_in_curr_line or of glyph_lines
\* returns NULL before the loop; the function returns NULL and does not
\* assign *out_line_count.  draw_word_glyphs goes on to its loop with
\* glyph_lines = NULL and line_count never assigned.
GlyphLinesAllocFail ==
    /\ pc = "compute_glyph_lines"
    /\ curr_word_idx = 0
    /\ pc' = "draw_undefined"
    /\ UNCHANGED << argv_words, alignment_arg, glyphs_boundary, line_spacing,
                    text_alignment, word_glyps, curr_word_idx, curr_x,
                    curr_y, words_in_curr_line, glyph_lines,
                    height_is_overflowed, curr_line_idx, drawn >>
    /\ UNCHANGED << placed_x, decodeVars, fbVars >>

\* The loop of draw_word_glyphs reads the unassigned line_count: with a
\* value of 0 or less the loop is skipped and free (NULL) returns, with a
\* larger one glyph_lines[0] is read through the null pointer.
DrawUndefined ==
    /\ pc = "draw_undefined"
    /\ \E unassigned_line_count \in {0, 1} :
          pc' = IF 0 < unassigned_line_count THEN "ub" ELSE "done_undefined"
    /\ UNCHANGED << argv_words, alignment_arg, glyphs_boundary, line_spacing,
                    text_alignment, word_glyps, curr_word_idx, curr_x,
                    curr_y, words_in_curr_line, glyph_lines,
                    height_is_overflowed, curr_line_idx, drawn >>
    /\ UNCHANGED << placed_x, decodeVars, fbVars >>

Next ==
    \/ MeasureWords
    \/ LayoutWord
    \/ LayoutFlush
    \/ DrawLine
    \/ DrawDone
    \/ WordGlypsAllocFail
    \/ GlyphLinesAllocFail
    \/ DrawUndefined

Spec == Init /\ [][Next]_vars

(***************************************************************************)
(* utf8_to_utf32, step by step.                                            *)
(***************************************************************************)
\* UTF-8 of one scalar value (the encoder the decoder is compared with).
Utf8Encode(c) ==
    IF c < 128 THEN << c >>
    ELSE IF c < 2048 THEN << 192 + (c \div 64), 128 + (c % 64) >>
    ELSE IF c < 65536
         THEN << 224 + (c \div 4096), 128 + ((c \div 64) % 64),
                 128 + (c % 64) >>
    ELSE << 240 + (c \div 262144), 128 + ((c \div 4096) % 64),
            128 + ((c \div 64) % 64), 128 + (c % 64) >>

RECURSIVE Utf8EncodeFrom(_, _)
Utf8EncodeFrom(cs, i) ==
    IF i > Len(cs) THEN << 0 >>
    ELSE Utf8Encode(cs[i]) \o Utf8EncodeFrom(cs, i + 1)

\* The null-terminated UTF-8 string of the scalar values cs.
Utf8String(cs) == Utf8EncodeFrom(cs, 1)

\* Scalar values: the ends of the 1-, 2-, 3- and 4-byte ranges and some
\* values inside them (none is 0, none is a surrogate).
Scalars == { 36, 127, 128, 233, 2047, 2048, 8364, 65535, 65536, 128512,
             1114111 }

ScalarStrings == SeqsOf(Scalars, 0, MaxScalars)

\* Strings that are not UTF-8: a continuation byte or 0xFF where a lead
\* byte is expected, and sequences cut short by the terminator.
MalformedWords == { <<128, 0>>, <<65, 128, 0>>, <<255, 0>>, <<195, 0>>,
                    <<226, 130, 0>>, <<240, 159, 152, 0>>,
                    <<195, 169, 128, 0>> }

DecodeInputs == { Utf8String(cs) : cs \in ScalarStrings } \cup MalformedWords

\* main is idle while the decoder runs on its own.
LayoutIdle ==
    /\ argv_words = << >>
    /\ alignment_arg = ""
    /\ glyphs_boundary = [init_x |-> 0, init_y |-> 0, width |-> 0,
                          height |-> 0]
    /\ line_spacing = 1
    /\ text_alignment = "Left"
    /\ word_glyps = << >>
    /\ pc = "idle"
    /\ curr_word_idx = 0
    /\ curr_x = 0
    /\ curr_y = 0
    /\ words_in_curr_line = << >>
    /\ glyph_lines = << >>
    /\ height_is_overflowed = FALSE
    /\ curr_line_idx = 0
    /\ drawn = << >>
    /\ placed_x = << >>

\* utf8_to_utf32 is entered: word_length = 0, utf8_word_ptr = utf8_word.
InitDecode ==
    /\ utf8_word \in DecodeInputs
    /\ dpc = "count"
    /\ utf8_word_ptr = 0
    /\ word_length = 0
    /\ utf32_word = << >>
    /\ LayoutIdle
    /\ FbIdle

\* utf8_word_ptr points into the string (the terminator included).
PtrInBounds == utf8_word_ptr >= 0 /\ utf8_word_ptr < Len(utf8_word)

\* One iteration of the counting loop.  The loop has no bound of its own:
\* word_length is kept exactly up to MaxCount and stays there ("MaxCount or
\* more"), so a loop that never ends is a cycle of the model.
CountStep ==
    /\ dpc = "count"
    /\ PtrInBounds
    /\ ByteAt(utf8_word, utf8_word_ptr) # 0
    /\ utf8_word_ptr' = utf8_word_ptr
         + next_utf8_glyph_length(ByteAt(utf8_word, utf8_word_ptr))
    /\ word_length' = IF word_length < MaxCount THEN word_length + 1
                      ELSE MaxCount
    /\ UNCHANGED << utf8_word, dpc, utf32_word >>
    /\ UNCHANGED << layoutVars, fbVars >>

\* The counting loop ends at the terminator; the UTF-32 buffer of
\* word_length + 1 slots is allocated and the pointers are reset.
CountEnd ==
    /\ dpc = "count"
    /\ PtrInBounds
    /\ ByteAt(utf8_word, utf8_word_ptr) = 0
    /\ dpc' = "convert"
    /\ utf8_word_ptr' = 0
    /\ utf32_word' = << >>
    /\ UNCHANGED << utf8_word, word_length >>
    /\ UNCHANGED << layoutVars, fbVars >>

\* One iteration of the conversion loop.
ConvertStep ==
    /\ dpc = "convert"
    /\ PtrInBounds
    /\ ByteAt(utf8_word, utf8_word_ptr) # 0
    /\ LET curr_glyph_length ==
               next_utf8_glyph_length(ByteAt(utf8_word, utf8_word_ptr))
       IN  /\ \E old \in {0, 65}:
                utf32_word' = Append(utf32_word,
                                     utf32_glyph(utf8_word, utf8_word_ptr,
                                                 curr_glyph_length, old))
           /\ utf8_word_ptr' = utf8_word_ptr + curr_glyph_length
    /\ UNCHANGED << utf8_word, dpc, word_length >>
    /\ UNCHANGED << layoutVars, fbVars >>

\* The conversion loop ends at the terminator: *utf32_word_ptr = 0.
ConvertEnd ==
    /\ dpc = "convert"
    /\ PtrInBounds
    /\ ByteAt(utf8_word, utf8_word_ptr) = 0
    /\ utf32_word' = Append(utf32_word, 0)
    /\ dpc' = "done"
    /\ UNCHANGED << utf8_word, utf8_word_ptr, word_length >>
    /\ UNCHANGED << layoutVars, fbVars >>

\* *utf8_word_ptr is read before the start of the string or after its
\* terminator: the behaviour is undefined.
ReadOutOfBounds ==
    /\ dpc \in {"count", "convert"}
    /\ ~ PtrInBounds
    /\ dpc' = "ub"
    /\ UNCHANGED << utf8_word, utf8_word_ptr, word_length, utf32_word >>
    /\ UNCHANGED << layoutVars, fbVars >>

NextDecode ==
    \/ CountStep
    \/ CountEnd
    \/ ConvertStep
    \/ ConvertEnd
    \/ ReadOutOfBounds

SpecDecode == InitDecode /\ [][NextDecode]_vars

\* utf8_to_utf32 is a sequential function: it keeps executing as long as it
\* has a next statement.
SpecDecodeFair == InitDecode /\ [][NextDecode]_vars /\ WF_vars(NextDecode)

(***************************************************************************)
(* The FrameBuffer object from main's option loop to its destruction.      *)
(* framebuffer_deinit and framebuffer_destroy are public: they are called  *)
(* in main's order (deinit, then destroy) and in every other order.        *)
(***************************************************************************)
\* main after the option loop: char *fbdev = strdup (FBDEV), replaced by
\* the argument of -d.
InitFb ==
    /\ dev_arg \in DevArgs
    /\ fbdev = IF dev_arg = "" THEN FBDEV ELSE dev_arg
    /\ fb_obj = "none"
    /\ fb = NoFb
    /\ fb_data = << >>
    /\ error = FALSE
    /\ syscalls = [munmap |-> 0, close |-> 0]
    /\ last_op = NoOp
    /\ written = {}
    /\ draw_count = 0
    /\ deinit_calls = 0
    /\ LayoutIdle
    /\ DecodeIdle

\* FrameBuffer *fb = framebuffer_create (FBDEV)
FbCreate ==
    /\ fb_obj = "none"
    /\ fb_obj' = "allocated"
    /\ fb' = framebuffer_create(FBDEV)
    /\ last_op' = Op("create")
    /\ written' = {}
    /\ UNCHANGED << deinit_calls, dev_arg, fbdev, fb_data, error, syscalls,
                    draw_count >>
    /\ UNCHANGED << layoutVars, decodeVars >>

\* framebuffer_init (fb, &error), open succeeds: the device is 2 .. MaxFbW
\* pixels wide, MaxFbH high, 24 or 32 bits deep, and its lines are as long
\* as their pixels or MaxSlop bytes longer.
FbInitOk ==
    /\ fb_obj = "allocated"
    /\ last_op.op = "create"
    /\ \E xres \in 2 .. MaxFbW, bits_per_pixel \in {24, 32},
          extra \in {0, MaxSlop} :
          fb' = framebuffer_init(fb, xres, MaxFbH, bits_per_pixel,
                                 xres * (bits_per_pixel \div 8) + extra)
    /\ fb_data' = [ o \in DeviceMemory(fb') |-> Background ]
    /\ last_op' = Op("init")
    /\ written' = {}
    /\ UNCHANGED << deinit_calls, dev_arg, fbdev, fb_obj, error, syscalls,
                    draw_count >>
    /\ UNCHANGED << layoutVars, decodeVars >>

\* framebuffer_init (fb, &error), open fails: fd = -1 and *error is set.
FbInitFail ==
    /\ fb_obj = "allocated"
    /\ last_op.op = "create"
    /\ fb' = [fb EXCEPT !.fd = -1]
    /\ error' = TRUE
    /\ last_op' = Op("init")
    /\ written' = {}
    /\ UNCHANGED << deinit_calls, dev_arg, fbdev, fb_obj, fb_data, syscalls,
                    draw_count >>
    /\ UNCHANGED << layoutVars, decodeVars >>

\* if (clear) framebuffer_clear (fb)
FbClear ==
    /\ fb_obj = "allocated"
    /\ fb.mapped
    /\ last_op.op = "init"
    /\ LET res == framebuffer_clear(fb, fb_data)
       IN  /\ fb_data' = res.data
           /\ written' = res.written
    /\ last_op' = Op("clear")
    /\ UNCHANGED << deinit_calls, dev_arg, fbdev, fb_obj, fb, error, syscalls,
                    draw_count >>
    /\ UNCHANGED << layoutVars, decodeVars >>

\* framebuffer_set_pixel (fb, x, y, r, g, b) for a pixel of the display or
\* next to it.
FbSetPixel ==
    /\ fb_obj = "allocated"
    /\ fb.mapped
    /\ draw_count < MaxDraws
    /\ \E x \in -1 .. fb.w, y \in -1 .. fb.h :
          LET res == framebuffer_set_pixel(fb, fb_data, x, y, PixelColour.r,
                                           PixelColour.g, PixelColour.b)
          IN  /\ fb_data' = res.data
              /\ written' = res.written
              /\ last_op' = [ Op("set_pixel") EXCEPT
                                !.x = x, !.y = y, !.r = PixelColour.r,
                                !.g = PixelColour.g, !.b = PixelColour.b ]
    /\ draw_count' = draw_count + 1
    /\ UNCHANGED << deinit_calls, dev_arg, fbdev, fb_obj, fb, error,
                    syscalls >>
    /\ UNCHANGED << layoutVars, decodeVars >>

\* The characters drawn on their own: 'i', U+00E9 and 'W'.
DrawnChars == <<105, 233, 87>>

\* The pen positions of a character, in both directions: MaxPen down to 0.
Pens == [ k \in 1 .. MaxPen + 1 |-> MaxPen + 1 - k ]

\* face_draw_char_on_fb (face, fb, c, &x, y) for a character of the font.
FbDrawChar ==
    /\ fb_obj = "allocated"
    /\ fb.mapped
    /\ draw_count < MaxDraws
    /\ \E ic \in DOMAIN DrawnChars, ix \in DOMAIN Pens, iy \in DOMAIN Pens :
          LET c == DrawnChars[ic]
              x == Pens[ix]
              y == Pens[iy]
              calls == face_draw_char_on_fb(c, x, y)
              res == SetPixels(fb, fb_data, calls, 1)
          IN  /\ fb_data' = res.data
              /\ written' = res.written
              /\ last_op' = [ Op("draw_char") EXCEPT
                                !.c = c, !.x = x, !.y = y, !.calls = calls ]
    /\ draw_count' = draw_count + 1
    /\ UNCHANGED << deinit_calls, dev_arg, fbdev, fb_obj, fb, error,
                    syscalls >>
    /\ UNCHANGED << layoutVars, decodeVars >>

\* The munmap and close calls that framebuffer_deinit makes on self.
DeinitCalls(self, calls) ==
    [ munmap |-> calls.munmap + (IF self.mapped THEN 1 ELSE 0),
      close |-> calls.close + (IF self.fd # -1 THEN 1 ELSE 0) ]

\* framebuffer_deinit (fb)
FbDeinit ==
    /\ fb_obj = "allocated"
    /\ deinit_calls < MaxDeinits
    /\ deinit_calls' = deinit_calls + 1
    /\ syscalls' = DeinitCalls(fb, syscalls)
    /\ fb' = framebuffer_deinit(fb)
    /\ last_op' = Op("deinit")
    /\ written' = {}
    /\ UNCHANGED << dev_arg, fbdev, fb_obj, fb_data, error, draw_count >>
    /\ UNCHANGED << layoutVars, decodeVars >>

\* framebuffer_destroy (fb): framebuffer_deinit (self), then the frees.
FbDestroy ==
    /\ fb_obj = "allocated"
    /\ deinit_calls' = deinit_calls + 1
    /\ syscalls' = DeinitCalls(fb, syscalls)
    /\ fb' = framebuffer_deinit(fb)
    /\ fb_obj' = "freed"
    /\ last_op' = Op("destroy")
    /\ written' = {}
    /\ UNCHANGED << dev_arg, fbdev, fb_data, error, draw_count >>
    /\ UNCHANGED << layoutVars, decodeVars >>

NextFb ==
    \/ FbCreate
    \/ FbInitOk
    \/ FbInitFail
    \/ FbClear
    \/ FbSetPixel
    \/ FbDrawChar
    \/ FbDeinit
    \/ FbDestroy

SpecFb == InitFb /\ [][NextFb]_vars

(***************************************************************************)
(* main: the framebuffer calls in the order of main.  The position of main *)
(* is the last operation it made.                                          *)
(***************************************************************************)
\* init_ft fails after framebuffer_init succeeded: the message is printed
\* and main goes on to framebuffer_deinit.
MainInitFtFail ==
    /\ last_op.op = "init"
    /\ ~ error
    /\ last_op' = Op("init_ft_failed")
    /\ written' = {}
    /\ UNCHANGED << dev_arg, fbdev, fb_obj, fb, fb_data, error, syscalls,
                    draw_count, deinit_calls >>
    /\ UNCHANGED << layoutVars, decodeVars >>

\* if (clear) framebuffer_clear (fb), after init_ft succeeded.
MainClear ==
    /\ ~ error
    /\ FbClear

\* malloc of word_glyps returns NULL: return 1.
MainReturn1 ==
    /\ last_op.op \in {"init", "clear"}
    /\ ~ error
    /\ last_op' = Op("return_1")
    /\ written' = {}
    /\ UNCHANGED << dev_arg, fbdev, fb_obj, fb, fb_data, error, syscalls,
                    draw_count, deinit_calls >>
    /\ UNCHANGED << layoutVars, decodeVars >>

\* draw_word_glyphs: a character is drawn.
MainDraw ==
    /\ last_op.op \in {"init", "clear", "draw_char"}
    /\ ~ error
    /\ FbDrawChar

\* framebuffer_deinit (fb), after the words are drawn (there may be none
\* to draw) or after init_ft failed.
MainDeinit ==
    /\ last_op.op \in {"init", "clear", "draw_char", "init_ft_failed"}
    /\ ~ error
    /\ FbDeinit

\* framebuffer_destroy (fb), after framebuffer_deinit or after
\* framebuffer_init failed.
MainDestroy ==
    /\ last_op.op = "deinit" \/ (last_op.op = "init" /\ error)
    /\ FbDestroy

\* free (fbdev); return 0
MainReturn0 ==
    /\ last_op.op = "destroy"
    /\ last_op' = Op("return_0")
    /\ written' = {}
    /\ UNCHANGED << dev_arg, fbdev, fb_obj, fb, fb_data, error, syscalls,
                    draw_count, deinit_calls >>
    /\ UNCHANGED << layoutVars, decodeVars >>

NextMain ==
    \/ FbCreate
    \/ FbInitOk
    \/ FbInitFail
    \/ MainInitFtFail
    \/ MainClear
    \/ MainReturn1
    \/ MainDraw
    \/ MainDeinit
    \/ MainDestroy
    \/ MainReturn0

SpecMain == InitFb /\ [][NextMain]_vars

(***************************************************************************)
(* Properties.                                                             *)
(***************************************************************************)
Boundary == glyphs_boundary

\* The word pointers of the emitted lines k .., read line by line.
RECURSIVE EmittedFrom(_)
EmittedFrom(k) ==
    IF k > Len(glyph_lines) THEN << >>
    ELSE glyph_lines[k].word32 \o EmittedFrom(k + 1)

EmittedWords == EmittedFrom(1)

\* The sum of x_extent + space over the words j .. of a line.
RECURSIVE AdvancesFrom(_, _)
AdvancesFrom(glyph_line, j) ==
    IF j > Len(glyph_line.word32) THEN 0
    ELSE word_glyps[glyph_line.word32[j]].x_extent + space_x
           + AdvancesFrom(glyph_line, j + 1)

\* The width of a line: its words and the spaces between them.
LineWidth(glyph_line) == AdvancesFrom(glyph_line, 1) - space_x

\* The pen X of the k-th word of a line drawn from the left edge.
LeftPenX(glyph_line, k) ==
    Boundary.init_x + AdvancesFrom(glyph_line, 1) - AdvancesFrom(glyph_line, k)

\* Half of a, rounded toward zero.
TruncHalf(a) == IF a >= 0 THEN a \div 2 ELSE -((-a) \div 2)

\* C1: each word is in at most one emitted line, and the emitted lines read
\* in order give the words in their input order (the word indices read
\* line by line are strictly increasing).
C1_WordsOnceInOrder ==
    /\ \A i \in 1 .. Len(EmittedWords) : EmittedWords[i] \in 1 .. word_count
    /\ \A i \in 1 .. Len(EmittedWords) - 1 :
          EmittedWords[i] < EmittedWords[i + 1]

\* C1 (witness): three words were laid out in two lines.
C1_Witness ==
    /\ pc = "done"
    /\ line_count = 2
    /\ Len(EmittedWords) = 3

\* C2: every emitted line satisfies y_position + line spacing <
\* init_y + height, and with height 3, line spacing 2 and init_y 0 exactly
\* one line is emitted.
C2_LinesFitHeight ==
    /\ \A k \in 1 .. line_count :
          glyph_lines[k].y_position + line_spacing
             < Boundary.init_y + Boundary.height
    /\ ( /\ pc = "done"
         /\ Boundary.height = 3
         /\ line_spacing = 2
         /\ Boundary.init_y = 0 ) => line_count = 1

\* C3: an emitted line of two or more words is not wider than the
\* boundary: the sum of word width + space over its words, minus one
\* space, is at most boundary.width.
C3_WrapInvariant ==
    \A k \in 1 .. line_count :
       glyph_lines[k].word_count >= 2
          => LineWidth(glyph_lines[k]) <= Boundary.width

\* C4: a word that is placed starts a new line exactly when the line in
\* progress holds a word and curr_x + word width + space >
\* init_x + width.
C4_WrapExactlyWhen ==
    [][ ( /\ pc = "compute_glyph_lines"
          /\ curr_word_idx' = curr_word_idx + 1 )
        => ( (Len(glyph_lines') = Len(glyph_lines) + 1)
             <=> ( /\ Len(words_in_curr_line) > 0
                   /\ curr_x + word_glyps[curr_word_idx + 1].x_extent
                        + space_x > Boundary.init_x + Boundary.width ) )
      ]_vars

\* C5: the first emitted line is at init_y, and each next line is exactly
\* one line spacing below the line before it, so Y strictly increases.
C5_LineYPositions ==
    /\ line_count > 0 => glyph_lines[1].y_position = Boundary.init_y
    /\ \A k \in 1 .. line_count - 1 :
          /\ glyph_lines[k + 1].y_position
                = glyph_lines[k].y_position + line_spacing
          /\ glyph_lines[k + 1].y_position > glyph_lines[k].y_position

\* C5 (witness): three lines were emitted.
C5_Witness ==
    /\ pc = "done"
    /\ line_count = 3

\* C6: a word wider than boundary.width is the only word of its emitted
\* line, no emitted line is empty, and drawn from the left its pen ends
\* past the right edge of the boundary.
C6_OversizedAlone ==
    /\ \A k \in 1 .. line_count :
          /\ glyph_lines[k].word_count >= 1
          /\ \A j \in 1 .. glyph_lines[k].word_count :
                word_glyps[glyph_lines[k].word32[j]].x_extent > Boundary.width
                   => glyph_lines[k].word_count = 1
    /\ \A i \in 1 .. Len(drawn) :
          ( /\ text_alignment = "Left"
            /\ word_glyps[drawn[i].word].x_extent > Boundary.width )
          => /\ drawn[i].x = Boundary.init_x
             /\ drawn[i].x_end > Boundary.init_x + Boundary.width

\* C7: under Center the first pen X of a line is init_x + width/2 -
\* lineWidth/2, lineWidth being the widths of the words of the line plus
\* one space between each two, both halves rounded toward zero.
C7_CenterStartX ==
    text_alignment = "Center" =>
       \A i \in 1 .. Len(drawn) :
          drawn[i].k = 1 =>
             drawn[i].x = Boundary.init_x + TruncHalf(Boundary.width)
                            - TruncHalf(LineWidth(glyph_lines[drawn[i].line]))

\* C7 (witness): a centred line of two or more words was drawn, the width
\* of the line and the width of the boundary both being odd.
C7_Witness ==
    /\ pc = "done"
    /\ text_alignment = "Center"
    /\ Boundary.width % 2 = 1
    /\ \E i \in 1 .. Len(drawn) :
          /\ drawn[i].k = 2
          /\ LineWidth(glyph_lines[drawn[i].line]) % 2 = 1

\* C8: an alignment argument other than "center" gives the Left layout:
\* the alignment is Left and every word is drawn at init_x plus the
\* advances of the words before it on its line.
C8_NonCenterIsLeft ==
    alignment_arg # "center" =>
       /\ text_alignment = "Left"
       /\ \A i \in 1 .. Len(drawn) :
             drawn[i].x = LeftPenX(glyph_lines[drawn[i].line], drawn[i].k)

\* C8 (witness): the alignment "right" was asked for and a line of two
\* words was drawn.
C8_Witness ==
    /\ pc = "done"
    /\ alignment_arg = "right"
    /\ \E i \in 1 .. Len(drawn) : drawn[i].k = 2

\* C9: every word is drawn inside the bounding rectangle: its pen starts
\* at or right of init_x, ends at or left of init_x + width, and its line
\* lies between init_y and init_y + height.
C9_DrawnInsideBoundary ==
    \A i \in 1 .. Len(drawn) :
       /\ drawn[i].x >= Boundary.init_x
       /\ drawn[i].x_end <= Boundary.init_x + Boundary.width
       /\ Boundary.init_y <= drawn[i].y
       /\ drawn[i].y + line_spacing <= Boundary.init_y + Boundary.height

C11_DecoderTerminates == <>(dpc \in {"done", "ub"})

\* C18: within a pass of the decoder every step moves the position
\* forward, a byte that is no lead byte moves it by exactly one byte, and
\* every step of the conversion pass stores exactly one codepoint.
C18_InvalidLeadAdvancesOne ==
    [][ ( dpc' = dpc /\ dpc \in {"count", "convert"} )
          => /\ utf8_word_ptr' > utf8_word_ptr
             /\ ( next_utf8_glyph_length(ByteAt(utf8_word, utf8_word_ptr)) = -1
                    => utf8_word_ptr' = utf8_word_ptr + 1 )
             /\ ( dpc = "convert"
                    => Len(utf32_word') = Len(utf32_word) + 1 ) ]_vars

\* C12: framebuffer_set_pixel writes the pixel exactly when it is on the
\* display (0 <= x < w and 0 <= y < h); off the display no byte changes.
C12_SetPixelIffOnDisplay ==
    [][ ( last_op'.op = "set_pixel" /\ draw_count' = draw_count + 1 )
          => LET x == last_op'.x
                 y == last_op'.y
                 on_display == 0 <= x /\ x < fb.w /\ 0 <= y /\ y < fb.h
             IN  /\ on_display <=> fb_data' # fb_data
                 /\ on_display <=> written' # {} ]_vars

\* The sum of the advances of the codepoints of the null-terminated string
\* s from its i-th on.
RECURSIVE AdvanceSum(_, _)
AdvanceSum(s, i) ==
    IF s[i] = 0 THEN 0 ELSE HoriAdvance(s[i]) + AdvanceSum(s, i + 1)

\* C13: the width measured for a string is the sum of the advances of
\* its codepoints and drawing it moves the pen by that same sum; with the
\* Left alignment every word is drawn from the X at which the line breaker
\* placed it.
C13_MeasureAndDrawAgree ==
    \A i \in DOMAIN drawn :
       LET d == drawn[i]
       IN  /\ word_glyps[d.word].x_extent = AdvanceSum(Word32(d.word), 1)
           /\ d.x_end = d.x + AdvanceSum(Word32(d.word), 1)
           /\ text_alignment = "Left" => d.x = placed_x[d.word]

\* C13 (witness): with the Left alignment a word of two codepoints was
\* drawn and the second word of the second line starts at its placement X.
C13_Witness ==
    /\ pc = "done"
    /\ text_alignment = "Left"
    /\ \E i \in DOMAIN drawn : Len(Word32(drawn[i].word)) = 3
    /\ \E i \in DOMAIN drawn :
          /\ drawn[i].line = 2
          /\ drawn[i].k = 2
          /\ drawn[i].x = placed_x[drawn[i].word]

\* C14: framebuffer_destroy makes no munmap and no close call and leaves
\* the descriptor and the mapping as they are; once framebuffer_init has
\* succeeded only framebuffer_deinit releases the device.
C14_DestroyDoesNotClose ==
    [][ /\ ( fb_obj = "allocated" /\ fb_obj' = "freed" )
             => ( syscalls' = syscalls /\ fb'.fd = fb.fd
                  /\ fb'.mapped = fb.mapped )
        /\ ( syscalls' # syscalls \/ (fb.fd # -1 /\ fb'.fd = -1) )
             => last_op'.op = "deinit" ]_vars

\* C16: the FrameBuffer that main creates and opens is on the device
\* named by -d when the option is given and on /dev/fb0 only when it is
\* absent.
C16_DeviceOptionUsed ==
    fb_obj = "allocated"
       => fb.fbdev = IF dev_arg = "" THEN "/dev/fb0" ELSE dev_arg

\* C15: when an allocation fails the pass is given up before anything is
\* drawn: draw_word_glyphs never reaches its loop with a line count that
\* was not assigned or with a null line array.
C15_AllocFailureAborts ==
    /\ pc \notin {"draw_undefined", "ub"}
    /\ pc \in {"return_1", "done_undefined"} => drawn = << >>

\* C17: when the height check fires at word k, the words before k are
\* all in emitted lines and word k and the later ones are in none; no word
\* is ever placed on a line that fails the height check.
C17_HeightCheckAfterWrap ==
    /\ ( height_is_overflowed /\ pc \in {"draw", "done"} )
          => EmittedWords = [ i \in 1 .. curr_word_idx |-> i ]
    /\ words_in_curr_line # << >>
          => curr_y + line_spacing < Boundary.init_y + Boundary.height

\* The pixels the glyph of c stands for with the pen at (penX, penY): one
\* for every cell of the bitmap rectangle with a nonzero coverage byte.
GlyphPixels(c, penX, penY) ==
    LET glyph == GlyphSlot(c)
        bitmap == glyph.bitmap
        xOffset == TruncHalf(HoriAdvance(c) - glyph.width)
        yOffset == bbox_ymax - glyph.horiBearingY
    IN  { [ x |-> penX + j + xOffset, y |-> penY + i + yOffset,
            r |-> bitmap.buffer[i * bitmap.pitch + j + 1],
            g |-> bitmap.buffer[i * bitmap.pitch + j + 1],
            b |-> bitmap.buffer[i * bitmap.pitch + j + 1] ] :
          <<i, j>> \in { ij \in (0 .. bitmap.rows - 1)
                                  \X (0 .. bitmap.width - 1) :
                           bitmap.buffer[ij[1] * bitmap.pitch + ij[2] + 1]
                              # 0 } }

ColourAt(data, x, y) ==
    LET at == y * fb.stride + x * fb.fb_bytes
    IN  [ r |-> data[at + 2], g |-> data[at + 1], b |-> data[at] ]

\* C20: drawing a glyph leaves every pixel of the display unchanged that
\* has zero coverage or lies outside the bitmap rectangle of the glyph,
\* and gives every pixel with nonzero coverage that coverage as its red,
\* green and blue, whatever it held before.
C20_GlyphLeavesBackground ==
    [][ ( last_op'.op = "draw_char" /\ draw_count' = draw_count + 1 )
          => LET covered == GlyphPixels(last_op'.c, last_op'.x, last_op'.y)
             IN  \A x \in 0 .. fb.w - 1, y \in 0 .. fb.h - 1 :
                    IF \E e \in covered : e.x = x /\ e.y = y
                    THEN \E e \in covered :
                            /\ e.x = x /\ e.y = y
                            /\ ColourAt(fb_data', x, y)
                                  = [r |-> e.r, g |-> e.g, b |-> e.b]
                    ELSE ColourAt(fb_data', x, y) = ColourAt(fb_data, x, y)
      ]_vars

\* C25: every byte that framebuffer_set_pixel and framebuffer_clear write
\* is at an offset of the mapped area, 0 .. fb_data_size - 1.
C25_WritesInsideMapping ==
    last_op.op \in {"set_pixel", "clear"}
       => \A o \in written : 0 <= o /\ o < fb.w * fb.h * fb.fb_bytes

\* C26: framebuffer_set_pixel at (x, y) leaves the colour that
\* framebuffer_get_pixel returns for every other pixel of the display as
\* it was.
C26_SetPixelOnlyThatPixel ==
    [][ ( last_op'.op = "set_pixel" /\ draw_count' = draw_count + 1 )
          => \A x \in 0 .. fb.w - 1, y \in 0 .. fb.h - 1 :
                ( x # last_op'.x \/ y # last_op'.y )
                   => framebuffer_get_pixel(fb, fb_data', x, y)
                        = framebuffer_get_pixel(fb, fb_data, x, y) ]_vars

\* C29: whatever framebuffer_deinit and framebuffer_destroy calls follow
\* framebuffer_init, munmap and close are each called at most once and not
\* at all when init failed; a framebuffer_deinit after the first one
\* changes nothing.
C29_ReleaseAtMostOnce ==
    [][ /\ syscalls'.munmap <= 1
        /\ syscalls'.close <= 1
        /\ error' => ( syscalls'.munmap = 0 /\ syscalls'.close = 0 )
        /\ ( deinit_calls >= 1 /\ deinit_calls' = deinit_calls + 1 )
              => ( syscalls' = syscalls /\ fb' = fb ) ]_vars

\* C29 (witness): main's order after a successful init: framebuffer_deinit,
\* then framebuffer_destroy, which calls framebuffer_deinit again.
C29_Witness ==
    /\ fb_obj = "freed"
    /\ deinit_calls = 2
    /\ fb.fb_data_size > 0
    /\ syscalls = [munmap |-> 1, close |-> 1]

\* C22: when main returns after framebuffer_create was called, the object
\* has been destroyed, and if framebuffer_init had succeeded
\* framebuffer_deinit has been called.
C22_MainReleasesFramebuffer ==
    last_op.op \in {"return_0", "return_1"}
       => /\ fb_obj = "freed"
          /\ fb.fb_data_size > 0 => deinit_calls >= 1

\* The characters the face has a glyph for.
MappedChars == {32, 105, 233, 87}

\* The sum of the advances of the mapped codepoints of the null-terminated
\* string s from its i-th on.
RECURSIVE MappedAdvanceSum(_, _)
MappedAdvanceSum(s, i) ==
    IF s[i] = 0 THEN 0
    ELSE (IF s[i] \in MappedChars THEN HoriAdvance(s[i]) ELSE 0)
           + MappedAdvanceSum(s, i + 1)

\* The number of cells with nonzero coverage in the bitmaps of the mapped
\* codepoints of s from its i-th on.
RECURSIVE MappedPixelCount(_, _)
MappedPixelCount(s, i) ==
    IF s[i] = 0 THEN 0
    ELSE (IF s[i] \in MappedChars
          THEN Cardinality(GlyphPixels(s[i], 0, 0)) ELSE 0)
           + MappedPixelCount(s, i + 1)

\* C21: a codepoint without a glyph adds nothing to the measured width of
\* its word, does not move the pen and has no pixel drawn: width, pen
\* movement and pixels of a word are those of its mapped codepoints.
C21_MissingGlyphAddsNothing ==
    \A i \in DOMAIN drawn :
       LET d == drawn[i]
           s == Word32(d.word)
       IN  /\ word_glyps[d.word].x_extent = MappedAdvanceSum(s, 1)
           /\ d.x_end - d.x = MappedAdvanceSum(s, 1)
           /\ d.pixels = MappedPixelCount(s, 1)

\* C21 (witness): a word with a codepoint the face has no glyph for, "$",
\* was measured and drawn.
C21_Witness ==
    /\ pc = "done"
    /\ \E i \in DOMAIN drawn :
          /\ \E j \in DOMAIN Word32(drawn[i].word) :
                Word32(drawn[i].word)[j] = 36
          /\ drawn[i].pixels > 0
          /\ drawn[i].x_end > drawn[i].x

C27_ReadsInsideInput ==
    /\ dpc \in {"count", "convert"} => PtrInBounds
    /\ dpc # "ub"
    /\ dpc = "convert" => Len(utf32_word) <= word_length
    /\ dpc = "done" => Len(utf32_word) = word_length + 1

(***************************************************************************)
(* C28: layout is monotone in the word list.  For the same boundary and    *)
(* face, every word emitted for the first n words of the list is emitted   *)
(* on the same line index and at the same Y for the whole list: appending  *)
(* words removes no earlier word from the output.                          *)
(***************************************************************************)
C28_LayoutMonotone ==
    pc \in {"draw", "done"} =>
       \A n \in 1 .. word_count :
          LET shorter == compute_glyph_lines(n)
          IN  \A i \in 1 .. Len(shorter) :
                 \A k \in 1 .. shorter[i].word_count :
                    /\ i <= line_count
                    /\ glyph_lines[i].y_position = shorter[i].y_position
                    /\ \E j \in 1 .. glyph_lines[i].word_count :
                          glyph_lines[i].word32[j] = shorter[i].word32[k]

\* The lines computed step by step are those of the function.
LayoutIsFunction ==
    pc \in {"draw", "done"} => glyph_lines = compute_glyph_lines(word_count)

(***************************************************************************)
(* C30: under Left alignment the line-based layout draws the same words at *)
(* the same (x, y) pen positions as the per-word loop of the original      *)
(* main, for every boundary and word list in which no word's advance       *)
(* exceeds width - init_x.                                                 *)
(***************************************************************************)
NoWordTooWide ==
    \A w \in 1 .. word_count :
       word_glyps[w].x_extent + space_x
          <= glyphs_boundary.width - glyphs_boundary.init_x

DrawnPens ==
    [ i \in 1 .. Len(drawn) |->
        [ word |-> drawn[i].word, x |-> drawn[i].x, y |-> drawn[i].y ] ]

C30_SameAsOriginalLoop ==
    (pc = "done" /\ text_alignment = "Left" /\ NoWordTooWide)
       => DrawnPens = OriginalLoop

====
